---- MODULE Spec2Model ----
(***************************************************************************)
(* Model of the HAR metrics-extraction engine of har-analyzer-backend.     *)
(*                                                                         *)
(* The repository holds two revisions of analyzeHAR that the service       *)
(* loads as ./utils/harAnalyzer:                                           *)
(*   rev = "utils"   src/utils/harAnalyzer.js  lines 1-239                 *)
(*   rev = "part006" src/unnamed/part_006      lines 1-159                 *)
(* One call of analyzeHAR is modelled as a state machine: the call itself  *)
(* (validation, construction of the accumulator, and in "utils" the        *)
(* insights), one step per forEach callback, the finalization (only in     *)
(* "part006"), and the return or the throw.                                *)
(*                                                                         *)
(* Specifications:                                                         *)
(*   Spec       one call of analyzeHAR on a document                       *)
(*   SpecCalls  two callers of analyzeHAR, their steps interleaved         *)
(*   SpecQueue  POST /analyze, harQueue, the worker and generateInsights   *)
(*              of src/server.js and src/unnamed/part_002                  *)
(*   SpecStore  POST /analyze and GET /results of the in-memory-store      *)
(*              servers of src/unnamed/part_000 and part_003               *)
(* rev and helpersDefined are common to the four; each specification       *)
(* leaves the variables of the others at their idle values.                *)
(*                                                                         *)
(* JavaScript values:                                                      *)
(*   - an optional value (undefined or v) is the sequence <<>> or <<v>>;   *)
(*   - an object used as a histogram is a function on the set of its keys; *)
(*   - a Set or an Array of strings is [kind, items], items in insertion   *)
(*     order; selected.errorRequests, an Array that the finalization       *)
(*     replaces by a count, is [kind, items] or [kind, value];             *)
(*   - a number produced by a division is [kind, num, den] with kind one   *)
(*     of "num", "NaN", "Infinity";                                        *)
(*   - a header value is the sequence of its directives, and               *)
(*     String.includes is membership of a directive.                       *)
(***************************************************************************)
EXTENDS Integers, Sequences, FiniteSets, TLC

VARIABLES rev, helpersDefined, harContent, pc, idx, metrics, insights,
          thrown, result, entryErrors

\* two callers of analyzeHAR: the accumulator objects, and each call
VARIABLES heap, calls

\* the queue-backed service of src/server.js and src/unnamed/part_002
VARIABLES workerRev, connectionStatus, responses, harQueue, jobs, worker, db

\* the service with the in-memory store of src/unnamed/part_000 and part_003
VARIABLES storeRev, now, metricsStore, handlers

analysisVars == <<harContent, pc, idx, metrics, insights, thrown, result,
                  entryErrors>>

callVars == <<heap, calls>>

queueVars == <<workerRev, connectionStatus, responses, harQueue, jobs, worker, db>>

storeVars == <<storeRev, now, metricsStore, handlers>>

vars == <<rev, helpersDefined, analysisVars, callVars, queueVars, storeVars>>

\* the part of the state a specification does not use stays as it is here
AnalysisIdle ==
  /\ harContent = <<>>
  /\ pc = "idle"
  /\ idx = 1
  /\ metrics = <<>>
  /\ insights = <<>>
  /\ thrown = "none"
  /\ result = "none"
  /\ entryErrors = 0

CallsIdle == heap = <<>> /\ calls = <<>>

QueueIdle ==
  /\ workerRev = "none"
  /\ connectionStatus = "none"
  /\ responses = <<>>
  /\ harQueue = <<>>
  /\ jobs = <<>>
  /\ worker = <<>>
  /\ db = <<>>

StoreIdle ==
  /\ storeRev = "none"
  /\ now = 0
  /\ metricsStore = <<>>
  /\ handlers = <<>>

\* Longest entries sequence of a document.
MaxEntries == 3

-----------------------------------------------------------------------------
(* Numbers that come out of a division *)

Num(n, d) == [kind |-> "num", num |-> n, den |-> d]

Zero == Num(0, 1)

NaN == [kind |-> "NaN", num |-> 0, den |-> 1]

Infinity == [kind |-> "Infinity", num |-> 0, den |-> 1]

\* a / b of two non-negative integers, as JavaScript computes it
Div(a, b) == IF b # 0 THEN Num(a, b)
             ELSE IF a = 0 THEN NaN ELSE Infinity

\* x || 0 : NaN and 0 are falsy
OrZero(x) == IF x.kind = "NaN" \/ (x.kind = "num" /\ x.num = 0) THEN Zero ELSE x

\* equality of two division results as numbers
NumEq(x, y) == /\ x.kind = y.kind
               /\ x.kind = "num" => x.num * y.den = y.num * x.den

IsZero(x) == x.kind = "num" /\ x.num = 0

-----------------------------------------------------------------------------
(* Histograms, Sets and Arrays *)

EmptyObject == [k \in {} |-> 0]

\* h[k] || 0
Get(h, k) == IF k \in DOMAIN h THEN h[k] ELSE 0

\* h[k] = (h[k] || 0) + 1
Incr(h, k) == [x \in (DOMAIN h) \cup {k} |-> IF x = k THEN Get(h, k) + 1 ELSE h[x]]

RECURSIVE SumOver(_, _)
SumOver(h, keys) ==
  IF keys = {} THEN 0
  ELSE LET k == CHOOSE x \in keys : TRUE IN h[k] + SumOver(h, keys \ {k})

\* Object.values(h).reduce((sum, count) => sum + count, 0)
SumValues(h) == SumOver(h, DOMAIN h)

Range(s) == {s[j] : j \in 1..Len(s)}

NewSet == [kind |-> "Set", items |-> <<>>]

NewArray == [kind |-> "Array", items |-> <<>>]

\* Set.prototype.add
SetAdd(s, x) == IF x \in Range(s.items) THEN s
                ELSE [s EXCEPT !.items = Append(@, x)]

\* Array.from(x): a Set yields its elements in insertion order, an Array a copy
ArrayFrom(x) == [kind |-> "Array", items |-> x.items]

\* Array.prototype.slice(0, n)
Slice(s, n) == IF Len(s) <= n THEN s ELSE SubSeq(s, 1, n)

-----------------------------------------------------------------------------
(* Input documents *)

Url(scheme, host) == [valid |-> TRUE, scheme |-> scheme, host |-> host]

BadUrl == [valid |-> FALSE, scheme |-> "", host |-> ""]

Header(name, value) == [name |-> name, value |-> value]

Response(status, bodySize, headers) ==
  <<[status |-> status, bodySize |-> bodySize, headers |-> <<headers>>]>>

\* a response object that has no headers array
ResponseNoHeaders(status, bodySize) ==
  <<[status |-> status, bodySize |-> bodySize, headers |-> <<>>]>>

\* a message whose payload does not decode to an object with cmd or type
Message(type, len) == [type |-> type, length |-> len, cmd |-> <<>>]

\* a message whose payload decodes to an object with the discriminator cmd
MessageCmd(type, len, cmd) == [type |-> type, length |-> len, cmd |-> <<cmd>>]

Entry(rt, url, reqHeaders, resp, time, started, msgs) ==
  [resourceType |-> rt,
   request |-> [url |-> url, headers |-> reqHeaders],
   response |-> resp,
   time |-> time,
   startedDateTime |-> started,
   webSocketMessages |-> msgs]

\* String.prototype.toLowerCase on the header names that occur
ToLowerCase(s) == CASE s = "Cache-Control" -> "cache-control"
                    [] s = "Content-Type" -> "content-type"
                    [] OTHER -> s

\* new Date(s).getTime(): s is [valid, ms]; an unparsable date gives NaN
DateGetTime(s) == IF s.valid THEN Num(s.ms, 1) ELSE NaN

Date(ms) == [valid |-> TRUE, ms |-> ms]

\* The entries a document is built from: well-formed HTTP exchanges that
\* differ in status, size, time, scheme and cache header, WebSocket
\* sessions, and the malformed shapes (unparsable URL, response absent,
\* response without a headers array).
EntryKinds ==
  { Entry(<<"xhr">>, Url("https", "a.example"), <<>>,
          Response(200, 500, <<>>), 500, Date(1), <<>>),
    Entry(<<"script">>, Url("http", "b.example"), <<>>,
          Response(404, 0, <<Header("Cache-Control", <<"public", "max-age=3600">>)>>),
          1500, Date(2), <<>>),
    Entry(<<>>, Url("https", "a.example"), <<>>,
          Response(500, 2000000, <<Header("content-type", <<"text/html">>),
                                   Header("cache-control", <<"no-store">>)>>),
          2000, Date(3), <<>>),
    Entry(<<"image">>, Url("https", "c.example"), <<>>,
          Response(302, -1, <<Header("cache-control", <<"no-cache">>)>>),
          1200, Date(4), <<>>),
    Entry(<<"xhr">>, BadUrl, <<>>,
          Response(200, 3000000, <<Header("cache-control", <<"max-age=60">>)>>),
          1800, Date(5), <<>>),
    Entry(<<"xhr">>, Url("https", "a.example"), <<>>,
          <<>>, 700, Date(6), <<>>),
    Entry(<<"xhr">>, Url("https", "d.example"), <<>>,
          ResponseNoHeaders(503, 1500000), 1600, Date(7), <<>>),
    Entry(<<"websocket">>, Url("wss", "a.example"),
          <<Header("sec-websocket-protocol", <<"chat", "superchat">>)>>,
          Response(101, 0, <<>>), 900, Date(8),
          <<<<MessageCmd("send", 14, "ping"), Message("receive", 5),
              Message("receive", 0)>>>>),
    Entry(<<"websocket">>, BadUrl, <<>>,
          Response(101, 0, <<>>), 400, Date(9), <<>>),
    Entry(<<"websocket">>, Url("ws", "e.example"), <<>>,
          <<>>, 300, Date(10), <<<<Message("send", 4)>>>>) }

RECURSIVE SeqsUpTo(_, _)
SeqsUpTo(S, n) ==
  IF n = 0 THEN {<<>>}
  ELSE LET shorter == SeqsUpTo(S, n - 1)
       IN shorter \cup {Append(s, e) : s \in {t \in shorter : Len(t) = n - 1}, e \in S}

\* harContent: undefined, {} , {log: {}} or {log: {entries: [...]}}
Documents ==
  [shape : {"undefined", "noLog", "noEntries"}, entries : {<<>>}]
  \cup [shape : {"entries"}, entries : SeqsUpTo(EntryKinds, MaxEntries)]

\* harContent?.log?.entries is truthy (an empty array is truthy)
HasEntries(doc) == doc.shape = "entries"

-----------------------------------------------------------------------------
(* The accumulator *)

\* the metrics object literal; the two revisions differ in domains only
NewMetrics(domains) ==
  [totalRequests |-> 0,
   totalSize |-> 0,
   totalTime |-> 0,
   primary |-> [totalRequests |-> 0, avgResponseTime |-> Zero,
                totalSize |-> 0, errorRate |-> Zero],
   selected |-> [slowestRequests |-> <<>>, largestRequests |-> <<>>,
                 errorRequests |-> NewArray],
   timeseries |-> <<>>,
   requestsByType |-> EmptyObject,
   statusCodes |-> EmptyObject,
   domains |-> domains,
   httpMetrics |-> [requests |-> 0, totalSize |-> 0, totalTime |-> 0,
                    statusCodes |-> EmptyObject,
                    requestsByType |-> EmptyObject,
                    slowestRequests |-> <<>>,
                    largestRequests |-> <<>>,
                    cacheHits |-> 0, cacheMisses |-> 0,
                    securityIssues |-> <<>>],
   websocketMetrics |-> [connections |-> 0, messageCount |-> 0,
                         sentMessages |-> 0, receivedMessages |-> 0,
                         totalMessageSize |-> 0,
                         averageMessageSize |-> Zero,
                         connectionDuration |-> 0,
                         messageTypes |-> EmptyObject,
                         protocols |-> NewSet,
                         errors |-> <<>>]]

\* outcome of a helper that may throw part-way through its updates
Ok(m) == [threw |-> FALSE, metrics |-> m]

Threw(m) == [threw |-> TRUE, metrics |-> m]

SlowThreshold == 1000

LargeThreshold == 1000000

TopK == 5

\* entry._resourceType || 'other'
TypeOf(entry) == IF entry.resourceType = <<>> THEN "other" ELSE entry.resourceType[1]

IsWebSocket(entry) == entry.resourceType = <<"websocket">>

\* calculateEntrySize without the > 0 test: a negative bodySize goes through
calculateEntrySize_raw(entry) == entry.response[1].bodySize

\* entry.response.bodySize > 0 ? entry.response.bodySize : 0
\* (the caller has checked that entry.response is an object)
calculateEntrySize(entry) ==
  IF entry.response[1].bodySize > 0 THEN entry.response[1].bodySize ELSE 0

\* `${Math.floor(status / 100)}xx`
StatusCategory(status) ==
  CASE status \div 100 = 1 -> "1xx"
    [] status \div 100 = 2 -> "2xx"
    [] status \div 100 = 3 -> "3xx"
    [] status \div 100 = 4 -> "4xx"
    [] status \div 100 = 5 -> "5xx"
    [] OTHER -> "0xx"

calculateErrorRate(statusCodes) ==
  LET errors == Get(statusCodes, "4xx") + Get(statusCodes, "5xx")
      total == SumValues(statusCodes)
  IN IF total > 0 THEN Num(errors, total) ELSE Zero

calculateSeverity(value, warningThreshold, errorThreshold) ==
  IF value.kind = "NaN" THEN "info"
  ELSE IF value.kind = "Infinity" \/ value.num >= errorThreshold * value.den THEN "error"
  ELSE IF value.num >= warningThreshold * value.den THEN "warning"
  ELSE "info"

RECURSIVE FoldMessages(_, _)
\* entry._webSocketMessages.forEach(msg => ...)
FoldMessages(msgs, ws) ==
  IF msgs = <<>> THEN ws
  ELSE LET msg == Head(msgs)
           w1 == [ws EXCEPT
                    !.messageCount = @ + 1,
                    !.sentMessages = IF msg.type = "send" THEN @ + 1 ELSE @,
                    !.receivedMessages = IF msg.type = "receive" THEN @ + 1 ELSE @,
                    !.totalMessageSize = @ + msg.length,
                    !.messageTypes = Incr(@, msg.type)]
       IN FoldMessages(Tail(msgs), w1)

\* processWebSocketEntry that also counts the connection as an HTTP request
processWebSocketEntry_countsRequest(entry, m) ==
  LET w1 == [m.websocketMetrics EXCEPT !.connections = @ + 1]
      w2 == IF entry.webSocketMessages # <<>>
              THEN FoldMessages(entry.webSocketMessages[1], w1)
              ELSE w1
      w3 == [w2 EXCEPT !.connectionDuration = @ + entry.time]
  IN Ok([m EXCEPT !.websocketMetrics = w3, !.httpMetrics.requests = @ + 1])

processWebSocketEntry(entry, m) ==
  LET w1 == [m.websocketMetrics EXCEPT !.connections = @ + 1]
      w2 == IF entry.webSocketMessages # <<>>
              THEN FoldMessages(entry.webSocketMessages[1], w1)
              ELSE w1
      w3 == [w2 EXCEPT !.connectionDuration = @ + entry.time]
  IN Ok([m EXCEPT !.websocketMetrics = w3])

\* entry.response.headers.find(h => h.name.toLowerCase() === 'cache-control'):
\* the first matching header as <<h>>, or <<>> for undefined
FindCacheControl(headers) ==
  LET hits == {j \in 1..Len(headers) : ToLowerCase(headers[j].name) = "cache-control"}
  IN IF hits = {} THEN <<>>
     ELSE <<headers[CHOOSE j \in hits : \A k \in hits : j <= k]>>

\* value.includes(token)
Includes(value, token) == token \in Range(value)

\* processHTTPEntry of src/utils/harAnalyzer.js
processHTTPEntry(entry, m) ==
  IF entry.response = <<>> THEN Threw(m)
  ELSE
    LET size == calculateEntrySize(entry)
        type == TypeOf(entry)
        statusCategory == StatusCategory(entry.response[1].status)
        h1 == [m.httpMetrics EXCEPT
                 !.requests = @ + 1,
                 !.totalSize = @ + size,
                 !.totalTime = @ + entry.time,
                 !.statusCodes = Incr(@, statusCategory),
                 !.slowestRequests =
                    IF entry.time > SlowThreshold
                      THEN Append(@, [url |-> entry.request.url,
                                      time |-> entry.time, type |-> type])
                      ELSE @,
                 !.largestRequests =
                    IF size > LargeThreshold
                      THEN Append(@, [url |-> entry.request.url,
                                      size |-> size, type |-> type])
                      ELSE @]
        m1 == [m EXCEPT !.httpMetrics = h1]
    IN IF entry.response[1].headers = <<>> THEN Threw(m1)
       ELSE
         LET cacheControl == FindCacheControl(entry.response[1].headers[1])
             h2 == IF cacheControl = <<>> THEN h1
                   ELSE IF Includes(cacheControl[1].value, "no-cache")
                           \/ Includes(cacheControl[1].value, "no-store")
                     THEN [h1 EXCEPT !.cacheMisses = @ + 1]
                     ELSE [h1 EXCEPT !.cacheHits = @ + 1]
         IN Ok([m EXCEPT !.httpMetrics = h2])

\* processEntry with the request counted only after the entry's size has
\* been read: an entry without a response is then not counted
processEntry_lateCount(entry, m) ==
  IF entry.response = <<>> THEN Threw(m)
  ELSE
    LET m2 == [m EXCEPT !.totalRequests = @ + 1,
                        !.totalSize = @ + calculateEntrySize(entry),
                        !.totalTime = @ + entry.time]
    IN IF ~entry.request.url.valid THEN Threw(m2)
       ELSE
         LET m3 == [m2 EXCEPT !.domains = SetAdd(@, entry.request.url.host)]
             r == IF IsWebSocket(entry)
                    THEN processWebSocketEntry(entry, m3)
                    ELSE processHTTPEntry(entry, m3)
         IN IF r.threw THEN r
            ELSE Ok([r.metrics EXCEPT
                       !.timeseries =
                          Append(@, [timestamp |-> DateGetTime(entry.startedDateTime),
                                     value |-> entry.time])])

\* processEntry of src/utils/harAnalyzer.js: the updates made before a
\* throw stay in the accumulator
processEntry(entry, m) ==
  LET m1 == [m EXCEPT !.totalRequests = @ + 1]
  IN IF entry.response = <<>> THEN Threw(m1)
     ELSE
       LET m2 == [m1 EXCEPT !.totalSize = @ + calculateEntrySize(entry),
                            !.totalTime = @ + entry.time]
       IN IF ~entry.request.url.valid THEN Threw(m2)
          ELSE
            LET m3 == [m2 EXCEPT !.domains = SetAdd(@, entry.request.url.host)]
                r == IF IsWebSocket(entry)
                       THEN processWebSocketEntry(entry, m3)
                       ELSE processHTTPEntry(entry, m3)
            IN IF r.threw THEN r
               ELSE Ok([r.metrics EXCEPT
                          !.timeseries =
                             Append(@, [timestamp |-> DateGetTime(entry.startedDateTime),
                                        value |-> entry.time])])

\* processHTTPEntry of src/unnamed/part_006: metrics.domains is an Array
\* there, and an Array has no add method
processHTTPEntry_p6(entry, m) ==
  IF entry.response = <<>> THEN Threw(m)
  ELSE
    LET size == calculateEntrySize(entry)
        type == TypeOf(entry)
        m1 == [m EXCEPT !.totalSize = @ + size, !.totalTime = @ + entry.time]
    IN IF ~entry.request.url.valid \/ m1.domains.kind # "Set" THEN Threw(m1)
       ELSE
         LET statusCategory == StatusCategory(entry.response[1].status)
             m2 == [m1 EXCEPT
                      !.domains = SetAdd(@, entry.request.url.host),
                      !.requestsByType = Incr(@, type),
                      !.statusCodes = Incr(@, statusCategory),
                      !.httpMetrics.slowestRequests =
                         IF entry.time > SlowThreshold
                           THEN Append(@, [url |-> entry.request.url,
                                           time |-> entry.time, type |-> type])
                           ELSE @]
         IN Ok(m2)

\* the forEach callback of src/unnamed/part_006
foldEntry_p6(entry, m) ==
  LET m1 == [m EXCEPT !.totalRequests = @ + 1]
      r == IF IsWebSocket(entry)
             THEN processWebSocketEntry(entry, m1)
             ELSE processHTTPEntry_p6(entry, m1)
  IN IF r.threw THEN r
     ELSE IF entry.response = <<>> THEN Threw(r.metrics)
     ELSE Ok([r.metrics EXCEPT
                !.timeseries =
                   Append(@, [timestamp |-> DateGetTime(entry.startedDateTime),
                              responseTime |-> entry.time,
                              size |-> calculateEntrySize(entry),
                              type |-> TypeOf(entry)])])

\* the finalization of src/unnamed/part_006
finalize_p6(m) ==
  [m EXCEPT
     !.primary = [totalRequests |-> m.totalRequests,
                  avgResponseTime |-> OrZero(Div(m.totalTime, m.totalRequests)),
                  totalSize |-> m.totalSize,
                  errorRate |-> calculateErrorRate(m.httpMetrics.statusCodes)],
     !.selected = [slowestRequests |-> Slice(m.httpMetrics.slowestRequests, TopK),
                   largestRequests |-> Slice(m.httpMetrics.largestRequests, TopK),
                   errorRequests |->
                      [kind |-> "number",
                       value |-> Get(m.httpMetrics.statusCodes, "4xx")]],
     !.domains = ArrayFrom(m.domains),
     !.websocketMetrics.protocols = ArrayFrom(m.websocketMetrics.protocols)]

\* the insights of src/utils/harAnalyzer.js, built from the accumulator as
\* it is when they are built; Object.keys of a Set is empty
buildInsights(m) ==
  LET cacheRate == Div(m.httpMetrics.cacheHits * 100,
                       m.httpMetrics.cacheHits + m.httpMetrics.cacheMisses)
      performance == [category |-> "Performance",
                      severity |-> calculateSeverity(m.primary.avgResponseTime, 300, 1000),
                      totalRequests |-> m.totalRequests,
                      domains |-> 0,
                      value |-> m.primary.avgResponseTime]
      cache == [category |-> "Cache",
                severity |-> calculateSeverity(
                               IF cacheRate.kind = "num"
                                 THEN Num(100 * cacheRate.den - cacheRate.num, cacheRate.den)
                                 ELSE NaN, 20, 40),
                totalRequests |-> m.totalRequests,
                domains |-> 0,
                value |-> cacheRate]
      errors == [category |-> "Errors",
                 severity |-> calculateSeverity(
                                Num(m.primary.errorRate.num * 100, m.primary.errorRate.den), 1, 5),
                 totalRequests |-> m.totalRequests,
                 domains |-> 0,
                 value |-> m.primary.errorRate]
  IN IF ~IsZero(m.primary.errorRate) /\ m.primary.errorRate.kind # "NaN"
       THEN <<performance, cache, errors>>
       ELSE <<performance, cache>>

-----------------------------------------------------------------------------
(* One call of analyzeHAR *)

Entries == harContent.entries

Init ==
  /\ rev \in {"utils", "part006"}
  /\ helpersDefined \in (IF rev = "utils" THEN BOOLEAN ELSE {TRUE})
  /\ harContent \in Documents
  /\ pc = "called"
  /\ idx = 1
  /\ metrics = <<>>
  /\ insights = <<>>
  /\ thrown = "none"
  /\ result = "none"
  /\ entryErrors = 0
  /\ CallsIdle /\ QueueIdle /\ StoreIdle

\* src/utils/harAnalyzer.js lines 3-5 and 111-114
analyzeHAR_invalid ==
  /\ rev = "utils"
  /\ pc = "called"
  /\ ~HasEntries(harContent)
  /\ pc' = "thrown"
  /\ thrown' = "InvalidFormat"
  /\ UNCHANGED <<rev, helpersDefined, harContent, idx, metrics, insights,
                 result, entryErrors>>
  /\ UNCHANGED <<callVars, queueVars, storeVars>>

\* src/utils/harAnalyzer.js lines 7-96: the accumulator and the insights.
\* generateCacheDetails and the other helpers of line 237 are not in the
\* file: without them the call at line 83 raises a ReferenceError.
analyzeHAR_begin ==
  /\ rev = "utils"
  /\ pc = "called"
  /\ HasEntries(harContent)
  /\ metrics' = NewMetrics(NewSet)
  /\ IF helpersDefined
       THEN /\ insights' = buildInsights(NewMetrics(NewSet))
            /\ pc' = "accumulating"
            /\ thrown' = thrown
       ELSE /\ insights' = <<buildInsights(NewMetrics(NewSet))[1]>>
            /\ pc' = "thrown"
            /\ thrown' = "ReferenceError"
  /\ UNCHANGED <<rev, helpersDefined, harContent, idx, result, entryErrors>>
  /\ UNCHANGED <<callVars, queueVars, storeVars>>

\* src/utils/harAnalyzer.js lines 99-105: one callback of forEach
analyzeHAR_forEach ==
  /\ rev = "utils"
  /\ pc = "accumulating"
  /\ idx <= Len(Entries)
  /\ LET r == processEntry(Entries[idx], metrics)
     IN /\ metrics' = r.metrics
        /\ entryErrors' = IF r.threw THEN entryErrors + 1 ELSE entryErrors
  /\ idx' = idx + 1
  /\ UNCHANGED <<rev, helpersDefined, harContent, pc, insights, thrown, result>>
  /\ UNCHANGED <<callVars, queueVars, storeVars>>

\* src/utils/harAnalyzer.js lines 107-110
analyzeHAR_return ==
  /\ rev = "utils"
  /\ pc = "accumulating"
  /\ idx > Len(Entries)
  /\ pc' = "returned"
  /\ result' = "metrics+insights"
  /\ UNCHANGED <<rev, helpersDefined, harContent, idx, metrics, insights,
                 thrown, entryErrors>>
  /\ UNCHANGED <<callVars, queueVars, storeVars>>

\* src/unnamed/part_006 lines 2-62
analyzeHAR_p6_begin ==
  /\ rev = "part006"
  /\ pc = "called"
  /\ metrics' = NewMetrics(NewArray)
  /\ IF HasEntries(harContent)
       THEN pc' = "accumulating" /\ result' = result
       ELSE pc' = "returned" /\ result' = "metrics"
  /\ UNCHANGED <<rev, helpersDefined, harContent, idx, insights, thrown,
                 entryErrors>>
  /\ UNCHANGED <<callVars, queueVars, storeVars>>

\* src/unnamed/part_006 lines 65-82: one callback of forEach; nothing
\* catches what it throws
analyzeHAR_p6_forEach ==
  /\ rev = "part006"
  /\ pc = "accumulating"
  /\ idx <= Len(Entries)
  /\ LET r == foldEntry_p6(Entries[idx], metrics)
     IN /\ metrics' = r.metrics
        /\ IF r.threw
             THEN pc' = "thrown" /\ thrown' = "TypeError" /\ idx' = idx
             ELSE pc' = pc /\ thrown' = thrown /\ idx' = idx + 1
  /\ UNCHANGED <<rev, helpersDefined, harContent, insights, result, entryErrors>>
  /\ UNCHANGED <<callVars, queueVars, storeVars>>

\* src/unnamed/part_006 lines 84-101
analyzeHAR_p6_finalize ==
  /\ rev = "part006"
  /\ pc = "accumulating"
  /\ idx > Len(Entries)
  /\ metrics' = finalize_p6(metrics)
  /\ pc' = "finalized"
  /\ UNCHANGED <<rev, helpersDefined, harContent, idx, insights, thrown,
                 result, entryErrors>>
  /\ UNCHANGED <<callVars, queueVars, storeVars>>

\* src/unnamed/part_006 line 103
analyzeHAR_p6_return ==
  /\ rev = "part006"
  /\ pc = "finalized"
  /\ pc' = "returned"
  /\ result' = "metrics"
  /\ UNCHANGED <<rev, helpersDefined, harContent, idx, metrics, insights,
                 thrown, entryErrors>>
  /\ UNCHANGED <<callVars, queueVars, storeVars>>

Next ==
  \/ analyzeHAR_invalid
  \/ analyzeHAR_begin
  \/ analyzeHAR_forEach
  \/ analyzeHAR_return
  \/ analyzeHAR_p6_begin
  \/ analyzeHAR_p6_forEach
  \/ analyzeHAR_p6_finalize
  \/ analyzeHAR_p6_return

Spec == Init /\ [][Next]_vars

-----------------------------------------------------------------------------
(* What a finished call hands to its caller *)

Returned == pc = "returned"

Done == pc \in {"returned", "thrown"}

\* the call got as far as the forEach over the entries
TraversalReached == thrown # "ReferenceError"

TypeOK ==
  /\ pc \in {"called", "accumulating", "finalized", "returned", "thrown"}
  /\ idx \in 1..(MaxEntries + 2)
  /\ thrown \in {"none", "InvalidFormat", "ReferenceError", "TypeError"}
  /\ result \in {"none", "metrics", "metrics+insights"}

-----------------------------------------------------------------------------
(* Reference values computed from the document *)

\* an entry every field of which can be read
WellFormed(e) ==
  /\ e.request.url.valid
  /\ e.response # <<>>
  /\ e.response[1].headers # <<>>

Malformed(doc) == {j \in 1..Len(doc) : ~WellFormed(doc[j])}

BadUrlOnly(e) ==
  /\ ~e.request.url.valid
  /\ e.response # <<>>
  /\ e.response[1].headers # <<>>

\* the entry with its request URL replaced by a parsable one
Repair(e) == [e EXCEPT !.request.url = Url("https", "repaired.example")]

RepairAll(doc) == [j \in 1..Len(doc) |-> IF BadUrlOnly(doc[j]) THEN Repair(doc[j]) ELSE doc[j]]

\* the document without its j-th entry
Without(doc, j) == SubSeq(doc, 1, j - 1) \o SubSeq(doc, j + 1, Len(doc))

RECURSIVE FoldAll(_, _, _)
\* the accumulator after the traversal of doc by revision r, started from m
\* (in "part006" the traversal ends at the first entry that throws)
FoldAll(r, doc, m) ==
  IF doc = <<>> THEN m
  ELSE IF r = "utils"
    THEN FoldAll(r, Tail(doc), processEntry(Head(doc), m).metrics)
    ELSE LET f == foldEntry_p6(Head(doc), m)
         IN IF f.threw THEN f.metrics ELSE FoldAll(r, Tail(doc), f.metrics)

\* the Metrics revision r computes for doc
Analyze(r, doc) ==
  IF r = "utils" THEN FoldAll(r, doc, NewMetrics(NewSet))
  ELSE finalize_p6(FoldAll(r, doc, NewMetrics(NewArray)))

\* the aggregates of a Metrics that do not mention a URL or a hostname
Aggregates(m) ==
  [size |-> <<m.totalSize, m.httpMetrics.totalSize>>,
   time |-> <<m.totalTime, m.httpMetrics.totalTime,
              m.websocketMetrics.connectionDuration>>,
   counts |-> <<m.httpMetrics.requests, m.websocketMetrics.connections,
                m.websocketMetrics.messageCount>>,
   status |-> <<m.statusCodes, m.httpMetrics.statusCodes>>,
   cache |-> <<m.httpMetrics.cacheHits, m.httpMetrics.cacheMisses>>,
   slow |-> [j \in 1..Len(m.httpMetrics.slowestRequests) |->
               m.httpMetrics.slowestRequests[j].time],
   large |-> [j \in 1..Len(m.httpMetrics.largestRequests) |->
                m.httpMetrics.largestRequests[j].size],
   timeseries |-> m.timeseries]

IsHTTP(e) == ~IsWebSocket(e)

\* bodySize of an HTTP entry, 0 when it is absent or not positive
NormalizedSize(e) ==
  IF e.response # <<>> /\ e.response[1].bodySize > 0 THEN e.response[1].bodySize ELSE 0

RECURSIVE SlowCandidates(_)
\* <<time, url>> of the HTTP entries of doc with time > 1000, in input order
SlowCandidates(doc) ==
  IF doc = <<>> THEN <<>>
  ELSE LET e == Head(doc)
       IN (IF IsHTTP(e) /\ e.time > SlowThreshold
             THEN <<(<<e.time, e.request.url>>)>> ELSE <<>>)
          \o SlowCandidates(Tail(doc))

RECURSIVE LargeCandidates(_)
\* <<size, url>> of the HTTP entries of doc with size > 1,000,000, in input order
LargeCandidates(doc) ==
  IF doc = <<>> THEN <<>>
  ELSE LET e == Head(doc)
       IN (IF IsHTTP(e) /\ NormalizedSize(e) > LargeThreshold
             THEN <<(<<NormalizedSize(e), e.request.url>>)>> ELSE <<>>)
          \o LargeCandidates(Tail(doc))

\* x inserted into the descending sequence s after the items that rank >= x
InsertDesc(s, x) ==
  LET before == {j \in 1..Len(s) : s[j][1] >= x[1]}
      n == Cardinality(before)
  IN SubSeq(s, 1, n) \o <<x>> \o SubSeq(s, n + 1, Len(s))

RECURSIVE SortDesc(_)
\* stable sort, descending by the first component
SortDesc(s) ==
  IF s = <<>> THEN <<>>
  ELSE InsertDesc(SortDesc(SubSeq(s, 1, Len(s) - 1)), s[Len(s)])

\* the top five of the candidates, ties in input order
TopOf(cands) == Slice(SortDesc(cands), TopK)

SlowList(m) == [j \in 1..Len(m.httpMetrics.slowestRequests) |->
                  <<m.httpMetrics.slowestRequests[j].time,
                    m.httpMetrics.slowestRequests[j].url>>]

LargeList(m) == [j \in 1..Len(m.httpMetrics.largestRequests) |->
                   <<m.httpMetrics.largestRequests[j].size,
                     m.httpMetrics.largestRequests[j].url>>]

-----------------------------------------------------------------------------
(* Claims *)

C2_MissingContainerFails ==
  (Done /\ ~HasEntries(harContent)) =>
    (pc = "thrown" /\ thrown = "InvalidFormat" /\ result = "none")

\* C3: for every document that has a log.entries sequence, whatever its
\* entries contain, the call returns a Metrics result and does not throw.
C3_OnlyInvalidFormatAborts ==
  (Done /\ HasEntries(harContent)) => (Returned /\ thrown = "none")

\* C4: for a document in which one entry has an unparsable request URL
\* (all else well-formed) a call that reaches the traversal does not throw, totalRequests is the
\* number of entries, and every aggregate other than domains and the
\* timeseries are what they are for the same document with that URL made
\* parsable.
C4_BadUrlOnlyOutOfDomains ==
  (Done /\ HasEntries(harContent) /\ TraversalReached
        /\ Cardinality(Malformed(Entries)) = 1
        /\ \A j \in Malformed(Entries) : BadUrlOnly(Entries[j])) =>
    /\ Returned
    /\ metrics.totalRequests = Len(Entries)
    /\ Aggregates(metrics) = Aggregates(Analyze(rev, RepairAll(Entries)))

\* C5: when the processing of one entry fails in a call that reaches the
\* traversal, the traversal continues,
\* every later entry is folded as if the failing entry were not there, and
\* the failing entry leaves nothing in the size, time, status, cache,
\* slow/large and timeseries aggregates: these are what they are for the
\* document without the failing entry.
C5_FailingEntryLeavesNothing ==
  (Done /\ HasEntries(harContent) /\ TraversalReached
        /\ Cardinality(Malformed(Entries)) = 1) =>
    /\ Returned
    /\ \A j \in Malformed(Entries) :
         LET clean == Analyze(rev, Without(Entries, j))
         IN /\ Aggregates(metrics).size = Aggregates(clean).size
            /\ Aggregates(metrics).time = Aggregates(clean).time
            /\ Aggregates(metrics).status = Aggregates(clean).status
            /\ Aggregates(metrics).cache = Aggregates(clean).cache
            /\ Aggregates(metrics).slow = Aggregates(clean).slow
            /\ Aggregates(metrics).large = Aggregates(clean).large
            /\ Aggregates(metrics).timeseries = Aggregates(clean).timeseries

\* the division results that the caller receives
ResultNumbers ==
  {metrics.primary.avgResponseTime, metrics.primary.errorRate,
   metrics.websocketMetrics.averageMessageSize}
  \cup (IF result = "metrics+insights"
          THEN {insights[j].value : j \in 1..Len(insights)} ELSE {})

\* C6: on a document whose entries sequence is present but empty the call
\* raises no exception and returns avgResponseTime = 0, errorRate = 0 and
\* averageMessageSize = 0, and no division by zero puts NaN in the result.
C6_ZeroDivisionSafety ==
  (Done /\ HasEntries(harContent) /\ Entries = <<>>) =>
    /\ Returned
    /\ IsZero(metrics.primary.avgResponseTime)
    /\ IsZero(metrics.primary.errorRate)
    /\ IsZero(metrics.websocketMetrics.averageMessageSize)
    /\ \A x \in ResultNumbers : x.kind = "num"

C9_EveryEntryCounted ==
  /\ (pc \in {"accumulating", "finalized", "returned"} /\ HasEntries(harContent)) =>
        metrics.totalRequests = idx - 1
  /\ (Returned /\ HasEntries(harContent)) =>
        metrics.totalRequests = Len(Entries)

\* a returned call whose traversal met an entry that could not be processed
C9_Witness ==
  /\ Returned
  /\ Len(Entries) = MaxEntries
  /\ entryErrors >= 1
  /\ entryErrors < Len(Entries)
  /\ metrics.totalRequests = Len(Entries)

HTTPEntries(doc) == {j \in 1..Len(doc) : IsHTTP(doc[j])}

\* the indices of the WebSocket entries of doc
WebSocketEntries(doc) == {j \in 1..Len(doc) : IsWebSocket(doc[j])}

RECURSIVE SumTime(_)
\* the elapsed time of every entry of doc, added up
SumTime(doc) == IF doc = <<>> THEN 0 ELSE Head(doc).time + SumTime(Tail(doc))

\* C11: in the returned Metrics primary.avgResponseTime is totalTime /
\* totalRequests, totalTime being the sum of the elapsed time of every
\* entry, HTTP and WebSocket, and 0 when totalRequests is 0 (stated for
\* documents of well-formed entries).
C11_AvgResponseTime ==
  (Returned /\ HasEntries(harContent) /\ Malformed(Entries) = {}) =>
    IF metrics.totalRequests = 0
      THEN IsZero(metrics.primary.avgResponseTime)
      ELSE NumEq(metrics.primary.avgResponseTime,
                 Num(SumTime(Entries), metrics.totalRequests))

\* the histogram of the status buckets of the HTTP entries of doc
StatusHistogram(doc) ==
  LET keys == {StatusCategory(doc[j].response[1].status) :
                 j \in {k \in HTTPEntries(doc) : doc[k].response # <<>>}}
  IN [c \in keys |->
        Cardinality({j \in HTTPEntries(doc) :
                       /\ doc[j].response # <<>>
                       /\ StatusCategory(doc[j].response[1].status) = c})]

TypeHistogram(doc) ==
  [t \in {TypeOf(doc[j]) : j \in HTTPEntries(doc)} |->
     Cardinality({j \in HTTPEntries(doc) : TypeOf(doc[j]) = t})]

CacheControlOf(e) ==
  IF e.response = <<>> \/ e.response[1].headers = <<>> THEN <<>>
  ELSE FindCacheControl(e.response[1].headers[1])

\* the HTTP entries of doc that carry a cache-control response header
WithCacheControl(doc) == {j \in HTTPEntries(doc) : CacheControlOf(doc[j]) # <<>>}

ForbidsCaching(e) ==
  \/ Includes(CacheControlOf(e)[1].value, "no-cache")
  \/ Includes(CacheControlOf(e)[1].value, "no-store")

InsecureEntries(doc) ==
  {j \in HTTPEntries(doc) :
     doc[j].request.url.valid /\ doc[j].request.url.scheme # "https"}

Hostnames(doc) ==
  {doc[j].request.url.host : j \in {k \in 1..Len(doc) : doc[k].request.url.valid}}

\* C16: in the returned Metrics domains is a sequence, not a Set object,
\* that holds the hostname of every entry with a parsable request URL,
\* HTTP or WebSocket, each distinct hostname once (stated for documents of
\* well-formed entries).
C16_Domains ==
  (Returned /\ HasEntries(harContent) /\ Malformed(Entries) = {}) =>
    /\ metrics.domains.kind = "Array"
    /\ Range(metrics.domains.items) = Hostnames(Entries)
    /\ Len(metrics.domains.items) = Cardinality(Hostnames(Entries))

RECURSIVE AllMessages(_)
\* the messages of the WebSocket entries of doc, in input order
AllMessages(doc) ==
  IF doc = <<>> THEN <<>>
  ELSE (IF IsWebSocket(Head(doc)) /\ Head(doc).webSocketMessages # <<>>
          THEN Head(doc).webSocketMessages[1] ELSE <<>>)
       \o AllMessages(Tail(doc))

\* the number of messages of msgs sent in direction dir
Directed(msgs, dir) == Cardinality({j \in 1..Len(msgs) : msgs[j].type = dir})

DiscriminatorOf(msg) == IF msg.cmd = <<>> THEN "binary" ELSE msg.cmd[1]

\* the histogram of the message-type keys of msgs
DiscriminatorHistogram(msgs) ==
  [k \in {DiscriminatorOf(msgs[j]) : j \in 1..Len(msgs)} |->
     Cardinality({j \in 1..Len(msgs) : DiscriminatorOf(msgs[j]) = k})]

\* C18: every WebSocket message is counted in messageTypes under the
\* cmd/type discriminator decoded from its payload, and under "binary"
\* when the payload cannot be decoded; a payload that cannot be decoded
\* raises nothing and the message's other counters are kept (stated for
\* documents of well-formed WebSocket entries).
C18_MessageTypes ==
  (Done /\ HasEntries(harContent) /\ TraversalReached
        /\ Malformed(Entries) = {} /\ HTTPEntries(Entries) = {}) =>
    /\ Returned
    /\ metrics.websocketMetrics.messageCount = Len(AllMessages(Entries))
    /\ metrics.websocketMetrics.messageTypes
         = DiscriminatorHistogram(AllMessages(Entries))

RECURSIVE SumLength(_)
SumLength(msgs) == IF msgs = <<>> THEN 0 ELSE Head(msgs).length + SumLength(Tail(msgs))

\* C19: in the returned Metrics websocketMetrics.averageMessageSize is
\* totalMessageSize / messageCount whenever messageCount > 0,
\* totalMessageSize being the payload lengths of all messages added up
\* (stated for documents of well-formed entries).
C19_AverageMessageSize ==
  (Returned /\ HasEntries(harContent) /\ Malformed(Entries) = {}
            /\ metrics.websocketMetrics.messageCount > 0) =>
    /\ metrics.websocketMetrics.totalMessageSize = SumLength(AllMessages(Entries))
    /\ NumEq(metrics.websocketMetrics.averageMessageSize,
             Num(metrics.websocketMetrics.totalMessageSize,
                 metrics.websocketMetrics.messageCount))

\* the tokens of the sec-websocket-protocol request headers of entry e
ProtocolTokensOf(e) ==
  UNION {Range(e.request.headers[k].value) :
           k \in {n \in 1..Len(e.request.headers) :
                    ToLowerCase(e.request.headers[n].name) = "sec-websocket-protocol"}}

\* the protocol tokens of the WebSocket entries of doc
ProtocolTokens(doc) ==
  UNION {ProtocolTokensOf(doc[j]) : j \in WebSocketEntries(doc)}

\* C20: every comma-separated, trimmed token of the sec-websocket-protocol
\* request header of a WebSocket entry is in websocketMetrics.protocols of
\* the returned Metrics, a sequence that holds each token once (stated for
\* documents of well-formed entries).
C20_Protocols ==
  (Returned /\ HasEntries(harContent) /\ Malformed(Entries) = {}) =>
    /\ metrics.websocketMetrics.protocols.kind = "Array"
    /\ ProtocolTokens(Entries) \subseteq Range(metrics.websocketMetrics.protocols.items)
    /\ Len(metrics.websocketMetrics.protocols.items)
         = Cardinality(Range(metrics.websocketMetrics.protocols.items))

Constructed ==
  \/ pc \in {"accumulating", "finalized", "returned"}
  \/ pc = "thrown" /\ thrown \in {"ReferenceError", "TypeError"}

RECURSIVE SumSizes(_, _)
\* the normalized sizes of the entries doc[j], j in js, added up
SumSizes(doc, js) ==
  IF js = {} THEN 0
  ELSE LET j == CHOOSE x \in js : TRUE
       IN NormalizedSize(doc[j]) + SumSizes(doc, js \ {j})

\* the entries the traversal has read the size of
SizeRead ==
  LET upTo == IF pc = "thrown" /\ thrown = "TypeError" THEN idx ELSE idx - 1
  IN {j \in 1..Len(Entries) :
        /\ j <= upTo
        /\ Entries[j].response # <<>>
        /\ rev = "part006" => IsHTTP(Entries[j])}

\* C24: an HTTP entry contributes its response body size when that is
\* > 0 and 0 otherwise, so totalSize and httpMetrics.totalSize are never
\* negative after any sequence of entries, and httpMetrics.totalSize <=
\* totalSize.
C24_SizesNeverNegative ==
  Constructed =>
    /\ metrics.totalSize >= 0
    /\ metrics.httpMetrics.totalSize >= 0
    /\ metrics.httpMetrics.totalSize <= metrics.totalSize
    /\ metrics.totalSize = SumSizes(Entries, SizeRead)
    /\ (rev = "utils") =>
         metrics.httpMetrics.totalSize
           = SumSizes(Entries, {j \in SizeRead : IsHTTP(Entries[j])
                                                /\ Entries[j].request.url.valid})

\* a returned call that folded an HTTP entry with a negative bodySize and
\* one with a positive bodySize
C24_Witness ==
  /\ Returned
  /\ HasEntries(harContent)
  /\ \E j \in SizeRead : IsHTTP(Entries[j]) /\ WellFormed(Entries[j])
                          /\ Entries[j].response[1].bodySize < 0
  /\ \E j \in SizeRead : IsHTTP(Entries[j]) /\ WellFormed(Entries[j])
                          /\ Entries[j].response[1].bodySize > 0
  /\ metrics.httpMetrics.totalSize > 0

\* the entries of doc whose response status is 400 or more
ErrorEntries(doc) ==
  {j \in 1..Len(doc) : doc[j].response # <<>> /\ doc[j].response[1].status >= 400}

SelectedSlowList(m) == [j \in 1..Len(m.selected.slowestRequests) |->
                          <<m.selected.slowestRequests[j].time,
                            m.selected.slowestRequests[j].url>>]

SelectedLargeList(m) == [j \in 1..Len(m.selected.largestRequests) |->
                           <<m.selected.largestRequests[j].size,
                             m.selected.largestRequests[j].url>>]

DispatchReached(r, e) ==
  r = "part006" \/ (e.response # <<>> /\ e.request.url.valid)

\* C26: folding a WebSocket-classified entry leaves every field of
\* httpMetrics unchanged, folding an HTTP-classified entry leaves every field
\* of websocketMetrics unchanged, and an entry is folded as a WebSocket
\* connection exactly when its _resourceType equals 'websocket'.
C26_FrameEffect ==
  [][(analyzeHAR_forEach \/ analyzeHAR_p6_forEach) =>
       LET e == Entries[idx]
       IN /\ (e.resourceType = <<"websocket">>) =>
               metrics'.httpMetrics = metrics.httpMetrics
          /\ (e.resourceType # <<"websocket">>) =>
               metrics'.websocketMetrics = metrics.websocketMetrics
          /\ (metrics'.websocketMetrics.connections
                 = metrics.websocketMetrics.connections + 1)
               <=> (e.resourceType = <<"websocket">> /\ DispatchReached(rev, e))
          /\ (metrics'.websocketMetrics.connections
                 = metrics.websocketMetrics.connections)
               <=> ~(e.resourceType = <<"websocket">> /\ DispatchReached(rev, e))]_vars

\* a returned call that folded a WebSocket entry with messages and an HTTP
\* entry, one after the other
C26_Witness ==
  /\ Returned
  /\ rev = "utils"
  /\ metrics.websocketMetrics.connections >= 1
  /\ metrics.websocketMetrics.messageCount >= 1
  /\ metrics.httpMetrics.requests >= 1
  /\ \E j \in 1..(Len(Entries) - 1) :
        IsWebSocket(Entries[j]) /\ WellFormed(Entries[j])
        /\ IsHTTP(Entries[j + 1]) /\ WellFormed(Entries[j + 1])

-----------------------------------------------------------------------------
(* Two callers of analyzeHAR.  The service calls analyzeHAR once per        *)
(* request or job; the callers run one after the other, and their steps    *)
(* are also interleaved here, which covers callers on separate threads.     *)

CallIds == {"a", "b"}

\* Longest entries sequence of a document given to one of the two callers.
MaxCallEntries == 2

\* a slow HTTP exchange, an entry without a response and a WebSocket session
CallEntryKinds ==
  {e \in EntryKinds : e.startedDateTime \in {Date(2), Date(6), Date(8)}}

CallDocuments ==
  [shape : {"noEntries"}, entries : {<<>>}]
  \cup [shape : {"entries"}, entries : SeqsUpTo(CallEntryKinds, MaxCallEntries)]

\* the object literal `const metrics = {...}` evaluated against one object
\* that every call shares
AllocRef_shared(h) == 1

\* `const metrics = {...}`: each evaluation of the literal is a new object
AllocRef(h) == Len(h) + 1

\* an accumulator that starts from what the previous call left
InitialAccumulator_carried(h, domains) ==
  IF h = <<>> THEN NewMetrics(domains) ELSE h[Len(h)]

\* the value of the literal: every counter zero, every collection empty
InitialAccumulator(h, domains) == NewMetrics(domains)

\* the heap with object ref holding m
Store(h, ref, m) == IF ref > Len(h) THEN Append(h, m) ELSE [h EXCEPT ![ref] = m]

NewCall(doc) ==
  [doc |-> doc, pc |-> "called", idx |-> 1, acc |-> 0, insights |-> <<>>,
   thrown |-> "none", result |-> <<>>]

InitCalls ==
  /\ rev \in {"utils", "part006"}
  /\ helpersDefined \in (IF rev = "utils" THEN BOOLEAN ELSE {TRUE})
  /\ heap = <<>>
  /\ calls \in [CallIds -> {NewCall(d) : d \in CallDocuments}]
  /\ AnalysisIdle /\ QueueIdle /\ StoreIdle

\* src/utils/harAnalyzer.js lines 3-5
call_invalid(c) ==
  /\ rev = "utils"
  /\ calls[c].pc = "called"
  /\ ~HasEntries(calls[c].doc)
  /\ calls' = [calls EXCEPT ![c].pc = "thrown", ![c].thrown = "InvalidFormat"]
  /\ UNCHANGED <<rev, helpersDefined, heap, analysisVars, queueVars, storeVars>>

\* src/utils/harAnalyzer.js lines 7-96
call_begin(c) ==
  /\ rev = "utils"
  /\ calls[c].pc = "called"
  /\ HasEntries(calls[c].doc)
  /\ LET ref == AllocRef(heap)
         m == InitialAccumulator(heap, NewSet)
     IN /\ heap' = Store(heap, ref, m)
        /\ calls' = [calls EXCEPT
                       ![c].acc = ref,
                       ![c].insights = IF helpersDefined THEN buildInsights(m) ELSE <<>>,
                       ![c].pc = IF helpersDefined THEN "accumulating" ELSE "thrown",
                       ![c].thrown = IF helpersDefined THEN "none" ELSE "ReferenceError"]
  /\ UNCHANGED <<rev, helpersDefined, analysisVars, queueVars, storeVars>>

\* src/utils/harAnalyzer.js lines 99-105
call_forEach(c) ==
  /\ rev = "utils"
  /\ calls[c].pc = "accumulating"
  /\ calls[c].idx <= Len(calls[c].doc.entries)
  /\ heap' = [heap EXCEPT ![calls[c].acc] =
                 processEntry(calls[c].doc.entries[calls[c].idx], @).metrics]
  /\ calls' = [calls EXCEPT ![c].idx = @ + 1]
  /\ UNCHANGED <<rev, helpersDefined, analysisVars, queueVars, storeVars>>

\* src/utils/harAnalyzer.js lines 107-110: the caller receives the object
call_return(c) ==
  /\ rev = "utils"
  /\ calls[c].pc = "accumulating"
  /\ calls[c].idx > Len(calls[c].doc.entries)
  /\ calls' = [calls EXCEPT ![c].pc = "returned",
                            ![c].result = <<heap[calls[c].acc]>>]
  /\ UNCHANGED <<rev, helpersDefined, heap, analysisVars, queueVars, storeVars>>

\* src/unnamed/part_006 lines 2-62
call_p6_begin(c) ==
  /\ rev = "part006"
  /\ calls[c].pc = "called"
  /\ LET ref == AllocRef(heap)
         m == InitialAccumulator(heap, NewArray)
     IN /\ heap' = Store(heap, ref, m)
        /\ calls' = IF HasEntries(calls[c].doc)
                      THEN [calls EXCEPT ![c].acc = ref, ![c].pc = "accumulating"]
                      ELSE [calls EXCEPT ![c].acc = ref, ![c].pc = "returned",
                                         ![c].result = <<m>>]
  /\ UNCHANGED <<rev, helpersDefined, analysisVars, queueVars, storeVars>>

\* src/unnamed/part_006 lines 65-82
call_p6_forEach(c) ==
  /\ rev = "part006"
  /\ calls[c].pc = "accumulating"
  /\ calls[c].idx <= Len(calls[c].doc.entries)
  /\ LET r == foldEntry_p6(calls[c].doc.entries[calls[c].idx], heap[calls[c].acc])
     IN /\ heap' = [heap EXCEPT ![calls[c].acc] = r.metrics]
        /\ calls' = IF r.threw
                      THEN [calls EXCEPT ![c].pc = "thrown", ![c].thrown = "TypeError"]
                      ELSE [calls EXCEPT ![c].idx = @ + 1]
  /\ UNCHANGED <<rev, helpersDefined, analysisVars, queueVars, storeVars>>

\* src/unnamed/part_006 lines 84-101
call_p6_finalize(c) ==
  /\ rev = "part006"
  /\ calls[c].pc = "accumulating"
  /\ calls[c].idx > Len(calls[c].doc.entries)
  /\ heap' = [heap EXCEPT ![calls[c].acc] = finalize_p6(@)]
  /\ calls' = [calls EXCEPT ![c].pc = "finalized"]
  /\ UNCHANGED <<rev, helpersDefined, analysisVars, queueVars, storeVars>>

\* src/unnamed/part_006 line 103
call_p6_return(c) ==
  /\ rev = "part006"
  /\ calls[c].pc = "finalized"
  /\ calls' = [calls EXCEPT ![c].pc = "returned",
                            ![c].result = <<heap[calls[c].acc]>>]
  /\ UNCHANGED <<rev, helpersDefined, heap, analysisVars, queueVars, storeVars>>

NextCalls ==
  \/ \E c \in CallIds : call_invalid(c)
  \/ \E c \in CallIds : call_begin(c)
  \/ \E c \in CallIds : call_forEach(c)
  \/ \E c \in CallIds : call_return(c)
  \/ \E c \in CallIds : call_p6_begin(c)
  \/ \E c \in CallIds : call_p6_forEach(c)
  \/ \E c \in CallIds : call_p6_finalize(c)
  \/ \E c \in CallIds : call_p6_return(c)

SpecCalls == InitCalls /\ [][NextCalls]_vars

CallDone(c) == calls[c].pc \in {"returned", "thrown"}

RECURSIVE Throws_p6(_, _)
\* the traversal of doc by "part006", started from m, throws
Throws_p6(doc, m) ==
  IF doc = <<>> THEN FALSE
  ELSE LET f == foldEntry_p6(Head(doc), m)
       IN f.threw \/ Throws_p6(Tail(doc), f.metrics)

\* what revision r hands to a caller that runs analyzeHAR on doc alone
AloneOutcome(r, h, doc) ==
  IF r = "utils"
    THEN IF ~HasEntries(doc)
           THEN [thrown |-> "InvalidFormat", metrics |-> <<>>, insights |-> <<>>]
         ELSE IF ~h
           THEN [thrown |-> "ReferenceError", metrics |-> <<>>, insights |-> <<>>]
         ELSE [thrown |-> "none", metrics |-> <<Analyze(r, doc.entries)>>,
               insights |-> buildInsights(NewMetrics(NewSet))]
    ELSE IF ~HasEntries(doc)
           THEN [thrown |-> "none", metrics |-> <<NewMetrics(NewArray)>>,
                 insights |-> <<>>]
         ELSE IF Throws_p6(doc.entries, NewMetrics(NewArray))
           THEN [thrown |-> "TypeError", metrics |-> <<>>, insights |-> <<>>]
         ELSE [thrown |-> "none", metrics |-> <<Analyze(r, doc.entries)>>,
               insights |-> <<>>]

\* what the caller of c holds: the object analyzeHAR returned, as it is now
CallOutcome(c) ==
  [thrown |-> calls[c].thrown,
   metrics |-> IF calls[c].pc = "returned" THEN <<heap[calls[c].acc]>> ELSE <<>>,
   insights |-> IF calls[c].pc = "returned" THEN calls[c].insights ELSE <<>>]

\* C22: each analyzeHAR call builds its own fresh accumulator; two calls,
\* one after the other or interleaved, never read or write each other's
\* state, so what each hands back is, and stays, what the call yields when
\* it runs alone on its document.
C22_FreshAccumulator ==
  \A c \in CallIds :
    /\ \A d \in CallIds \ {c} :
         calls[c].acc # 0 => calls[c].acc # calls[d].acc
    /\ CallDone(c) =>
         CallOutcome(c) = AloneOutcome(rev, helpersDefined, calls[c].doc)

\* both calls returned Metrics of different non-empty documents
C22_Witness ==
  /\ \A c \in CallIds : calls[c].pc = "returned" /\ Len(calls[c].doc.entries) >= 1
  /\ calls["a"].doc # calls["b"].doc
  /\ heap[calls["a"].acc].totalRequests >= 1
  /\ heap[calls["b"].acc].websocketMetrics.messageCount >= 1

C23_WitnessFailure ==
  /\ calls["a"].doc = calls["b"].doc
  /\ \A c \in CallIds : calls[c].pc = "thrown" /\ calls[c].thrown = "TypeError"

-----------------------------------------------------------------------------
(* The queue-backed service: POST /analyze puts a job on harQueue, the     *)
(* worker runs analyzeHAR on it, asks the text-generation API for insights *)
(* and inserts the result rows.                                             *)
(*   workerRev = "single"    src/unnamed/part_002 (src/server.js 1-433)    *)
(*   workerRev = "personas"  src/server.js lines 434-1074                  *)

\* Most POST /analyze requests in one behaviour.
MaxPosts == 1

maxRetries == 3

\* delay((i + 1) * 2000), the same at every retry
RetryDelay_flat(i) == 2000

\* delay((i + 1) * 2000)
RetryDelay(i) == (i + 1) * 2000

QuotaMessage == "OpenAI API quota exceeded. Please try again later."

\* openai.chat.completions.create: a completion, or an error with its code
ApiOutcomes == {"ok", "insufficient_quota", "rate_limit_exceeded"}

\* Object.keys(PERSONAS) of ./config/personas
PERSONAS == <<"developer", "qa", "business">>

\* one invocation of generateInsights: the loop variable, the calls made,
\* the delays awaited, the number of failed calls, the code of the last
\* failure, and how it ended
NewInvocation ==
  [i |-> 0, apiCalls |-> 0, waits |-> <<>>, failures |-> 0, lastCode |-> "",
   outcome |-> "running", value |-> <<>>, error |-> <<>>]

\* req.file: absent, a buffer that is not JSON, or a HAR document
Files == {"none", "badjson", "har"}

\* the documents uploaded: one without log.entries, one with a WebSocket
\* session
QueueDocuments ==
  [shape : {"noEntries"}, entries : {<<>>}]
  \cup [shape : {"entries"},
        entries : {<<e>> : e \in {k \in EntryKinds : k.startedDateTime = Date(8)}}]

Str(v) == [type |-> "string", value |-> v]

\* !v of a string v: only the empty string is falsy
Not(v) == [type |-> "boolean", value |-> IF v = "" THEN "true" ELSE "false"]

\* x === y
StrictEquals(x, y) == x.type = y.type /\ x.value = y.value

\* !connection.status === 'ready'
RedisNotReady(status) == StrictEquals(Not(status), Str("ready"))

\* req.body.persona || 'developer'
PersonaOrDefault(persona) == IF persona = <<>> THEN "developer" ELSE persona[1]

Reply(file, checked, code, error) ==
  [file |-> file, checked |-> checked, code |-> code, error |-> error,
   jobId |-> <<>>, pendingJob |-> <<>>]

\* the handler suspended at `await harQueue.add(...)`
Pending(file, checked, doc, persona) ==
  [file |-> file, checked |-> checked, code |-> 0, error |-> "",
   jobId |-> <<>>,
   pendingJob |-> <<[harContent |-> doc, persona |-> PersonaOrDefault(persona)]>>]

IdleWorker ==
  [pc |-> "idle", job |-> 0, metrics |-> <<>>, p |-> 1,
   gi |-> [NewInvocation EXCEPT !.outcome = "none"]]

InitQueue ==
  /\ rev \in {"utils", "part006"}
  /\ helpersDefined \in (IF rev = "utils" THEN BOOLEAN ELSE {TRUE})
  /\ workerRev \in {"single", "personas"}
  /\ connectionStatus = "connecting"
  /\ responses = <<>>
  /\ harQueue = IF workerRev = "single" THEN << <<>> >> ELSE <<>>
  /\ jobs = <<>>
  /\ worker = IdleWorker
  /\ db = <<>>
  /\ AnalysisIdle /\ CallsIdle /\ StoreIdle

\* the Redis connection becomes ready; src/server.js lines 512-517: the
\* connect handler of the later revision creates the queue
redis_connect ==
  /\ connectionStatus \in {"connecting", "reconnecting"}
  /\ connectionStatus' = "ready"
  /\ harQueue' = IF harQueue = <<>> THEN << <<>> >> ELSE harQueue
  /\ UNCHANGED <<rev, helpersDefined, workerRev, responses, jobs, worker, db,
                 analysisVars, callVars, storeVars>>

\* the Redis connection is lost
redis_close ==
  /\ connectionStatus = "ready"
  /\ connectionStatus' = "reconnecting"
  /\ UNCHANGED <<rev, helpersDefined, workerRev, responses, harQueue, jobs,
                 worker, db, analysisVars, callVars, storeVars>>

\* src/unnamed/part_002 lines 95-143, src/server.js lines 99-147: the
\* handler up to the answer or to the await of harQueue.add
post_analyze ==
  /\ workerRev = "single"
  /\ Len(responses) < MaxPosts
  /\ \E file \in Files, persona \in {<<>>, <<"qa">>}, doc \in QueueDocuments :
       responses' = Append(responses,
         IF file = "none"
           THEN Reply(file, "", 400, "No file uploaded")
         ELSE IF file = "badjson"
           THEN Reply(file, "", 400, "Invalid JSON in HAR file")
         ELSE IF RedisNotReady(connectionStatus)
           THEN Reply(file, connectionStatus, 500, "Queue service unavailable")
         ELSE Pending(file, connectionStatus, doc, persona))
  /\ UNCHANGED <<rev, helpersDefined, workerRev, connectionStatus, harQueue,
                 jobs, worker, db, analysisVars, callVars, storeVars>>

\* src/server.js lines 703-742
post_analyze_locals ==
  /\ workerRev = "personas"
  /\ Len(responses) < MaxPosts
  /\ \E file \in Files, persona \in {<<>>, <<"qa">>}, doc \in QueueDocuments :
       responses' = Append(responses,
         IF file = "none"
           THEN Reply(file, "", 400, "No file uploaded")
         ELSE IF file = "badjson"
           THEN Reply(file, "", 400, "Invalid JSON in HAR file")
         ELSE IF harQueue = <<>>
           THEN Reply(file, connectionStatus, 500, "Service not ready")
         ELSE Pending(file, connectionStatus, doc, persona))
  /\ UNCHANGED <<rev, helpersDefined, workerRev, connectionStatus, harQueue,
                 jobs, worker, db, analysisVars, callVars, storeVars>>

\* harQueue.add settles: the job is written once Redis is ready, or the
\* promise rejects (part_002 lines 124-133, server.js lines 727-741)
harQueue_add ==
  \E k \in 1..Len(responses) :
    /\ responses[k].pendingJob # <<>>
    /\ \E added \in BOOLEAN :
         /\ added => connectionStatus = "ready"
         /\ IF added
              THEN /\ jobs' = Append(jobs,
                                 [harContent |-> responses[k].pendingJob[1].harContent,
                                  persona |-> responses[k].pendingJob[1].persona,
                                  state |-> "waiting", error |-> <<>>])
                   /\ harQueue' = << Append(harQueue[1], Len(jobs) + 1) >>
                   /\ responses' = [responses EXCEPT
                                      ![k].code = 200,
                                      ![k].jobId = <<Len(jobs) + 1>>,
                                      ![k].pendingJob = <<>>]
              ELSE /\ responses' = [responses EXCEPT
                                      ![k].code = 500,
                                      ![k].error =
                                         IF workerRev = "single"
                                           THEN "Failed to queue analysis job"
                                           ELSE "Failed to process file",
                                      ![k].pendingJob = <<>>]
                   /\ UNCHANGED <<jobs, harQueue>>
    /\ UNCHANGED <<rev, helpersDefined, workerRev, connectionStatus, worker, db,
                   analysisVars, callVars, storeVars>>

\* the worker takes the next job and runs analyzeHAR on it (part_002 lines
\* 195-197, server.js lines 358-360 and 520-545); what analyzeHAR throws
\* fails the job
worker_process ==
  /\ worker.pc = "idle"
  /\ harQueue # <<>>
  /\ harQueue[1] # <<>>
  /\ LET j == Head(harQueue[1])
         out == AloneOutcome(rev, helpersDefined, jobs[j].harContent)
     IN /\ harQueue' = << Tail(harQueue[1]) >>
        /\ IF out.thrown # "none"
             THEN /\ jobs' = [jobs EXCEPT ![j].state = "failed",
                                          ![j].error = <<out.thrown>>]
                  /\ worker' = worker
             ELSE /\ jobs' = [jobs EXCEPT ![j].state = "active"]
                  /\ worker' = [pc |-> "generating", job |-> j,
                                metrics |-> out.metrics, p |-> 1,
                                gi |-> NewInvocation]
  /\ UNCHANGED <<rev, helpersDefined, workerRev, connectionStatus, responses,
                 db, analysisVars, callVars, storeVars>>

\* generateInsights, one turn of its for loop: the API call, and after a
\* failure the delay and the next turn, or the throw (part_002 lines
\* 307-368, server.js lines 212-273 and 763-912)
generateInsights_attempt ==
  /\ worker.pc = "generating"
  /\ worker.gi.outcome = "running"
  /\ worker.gi.i < maxRetries
  /\ \E api \in ApiOutcomes :
       LET g == [worker.gi EXCEPT !.apiCalls = @ + 1]
       IN worker' = [worker EXCEPT !.gi =
            IF api = "ok"
              THEN [g EXCEPT !.outcome = "returned", !.value = <<"text">>]
            ELSE IF g.i < maxRetries - 1
              THEN [g EXCEPT !.failures = @ + 1, !.lastCode = api,
                             !.waits = Append(@, RetryDelay(g.i)),
                             !.i = @ + 1]
            ELSE [g EXCEPT !.failures = @ + 1, !.lastCode = api,
                           !.outcome = "thrown",
                           !.error = <<IF api = "insufficient_quota"
                                         THEN QuotaMessage ELSE api>>]]
  /\ UNCHANGED <<rev, helpersDefined, workerRev, connectionStatus, responses,
                 harQueue, jobs, db, analysisVars, callVars, storeVars>>

\* the worker after generateInsights has returned or thrown: part_002 lines
\* 201-220 and server.js lines 375-392 catch the error and insert one row;
\* server.js lines 548-568 insert one row per persona and catch nothing
worker_store ==
  /\ worker.pc = "generating"
  /\ worker.gi.outcome \in {"returned", "thrown"}
  /\ LET j == worker.job
         fail(err) == /\ jobs' = [jobs EXCEPT ![j].state = "failed",
                                              ![j].error = <<err>>]
                      /\ worker' = IdleWorker
                      /\ db' = db
     IN IF workerRev = "single"
          THEN \E inserted \in BOOLEAN :
                 IF inserted
                   THEN /\ db' = Append(db, [job_id |-> j,
                                             persona |-> jobs[j].persona,
                                             metrics |-> worker.metrics,
                                             insights |-> worker.gi.value,
                                             error |-> worker.gi.error])
                        /\ jobs' = [jobs EXCEPT ![j].state = "completed"]
                        /\ worker' = IdleWorker
                   ELSE fail("insert")
          ELSE IF worker.gi.outcome = "thrown"
            THEN fail(worker.gi.error[1])
            ELSE \E inserted \in BOOLEAN :
                   IF inserted
                     THEN /\ db' = Append(db, [job_id |-> j,
                                               persona |-> PERSONAS[worker.p],
                                               metrics |-> worker.metrics,
                                               insights |-> worker.gi.value,
                                               error |-> <<>>])
                          /\ IF worker.p < Len(PERSONAS)
                               THEN /\ worker' = [worker EXCEPT !.p = @ + 1,
                                                                !.gi = NewInvocation]
                                    /\ jobs' = jobs
                               ELSE /\ worker' = IdleWorker
                                    /\ jobs' = [jobs EXCEPT ![j].state = "completed"]
                     ELSE fail("insert")
  /\ UNCHANGED <<rev, helpersDefined, workerRev, connectionStatus, responses,
                 harQueue, analysisVars, callVars, storeVars>>

NextQueue ==
  \/ redis_connect
  \/ redis_close
  \/ post_analyze
  \/ post_analyze_locals
  \/ harQueue_add
  \/ worker_process
  \/ generateInsights_attempt
  \/ worker_store

SpecQueue == InitQueue /\ [][NextQueue]_vars

\* the delays 2s, 4s, ... awaited after the first n failures
DelaysAfter(n) == [k \in 1..n |-> 2000 * k]

\* what every invocation of generateInsights satisfies whatever its delays
InvocationShape(g) ==
  /\ g.apiCalls <= maxRetries
  /\ g.apiCalls = g.failures + (IF g.outcome = "returned" THEN 1 ELSE 0)
  /\ g.outcome = "running" => g.failures < maxRetries /\ g.value = <<>>
  /\ g.outcome = "returned" => g.value # <<>> /\ g.error = <<>>
  /\ g.outcome = "thrown" =>
       /\ g.failures = maxRetries
       /\ g.value = <<>>
       /\ g.error = <<IF g.lastCode = "insufficient_quota"
                        THEN QuotaMessage ELSE g.lastCode>>

RowsOf(j) == {k \in 1..Len(db) : db[k].job_id = j}

C29_RedisValidated ==
  workerRev = "single" =>
    \A k \in 1..Len(responses) :
      (responses[k].file = "har" /\ responses[k].checked # "ready") =>
        /\ responses[k].pendingJob = <<>>
        /\ responses[k].code = 500
        /\ responses[k].error = "Queue service unavailable"
        /\ responses[k].jobId = <<>>

-----------------------------------------------------------------------------
(* The service with the in-memory store: POST /analyze runs analyzeHAR in  *)
(* the handler, keeps the result in the Map metricsStore under a jobId read *)
(* from the clock, and GET /results/:jobId reads the Map.                   *)
(*   storeRev = "part000"  src/unnamed/part_000                            *)
(*   storeRev = "part003"  src/unnamed/part_003                            *)

RequestIds == {"r1", "r2"}

\* Latest value of Date.now(), in milliseconds after the first.
MaxClock == 2

\* req.body: {}, {log: {}} and a document with one WebSocket session
StoreDocuments ==
  [shape : {"noLog", "noEntries"}, entries : {<<>>}]
  \cup [shape : {"entries"},
        entries : {<<e>> : e \in {k \in EntryKinds : k.startedDateTime = Date(8)}}]

\* Date.now()
DateNow(ms) == [type |-> "number", value |-> ms]

\* Number.prototype.toString of a non-negative integer
NumberToString(n) == [type |-> "string", digits |-> n.value]

\* parseInt of a string of digits
ParseInt(str) == [type |-> "number", value |-> str.digits]

\* the jobId as it reaches req.params: the path segment is a string
ParamOf(jobId) == IF jobId.type = "string" THEN jobId ELSE NumberToString(jobId)

\* Map.prototype.set
MapSet(map, key, value) ==
  [k \in (DOMAIN map) \cup {key} |-> IF k = key THEN value ELSE map[k]]

\* Map.prototype.get: <<>> for undefined
MapGet(map, key) == IF key \in DOMAIN map THEN <<map[key]>> ELSE <<>>

NewHandler(body) ==
  [body |-> body, pc |-> "arrived", code |-> 0, jobId |-> <<>>,
   value |-> <<>>, got |-> <<>>]

InitStore ==
  /\ rev \in {"utils", "part006"}
  /\ helpersDefined \in (IF rev = "utils" THEN BOOLEAN ELSE {TRUE})
  /\ storeRev \in {"part000", "part003"}
  /\ now = 0
  /\ metricsStore = <<>>
  /\ handlers \in [RequestIds -> {NewHandler(d) : d \in StoreDocuments}]
  /\ AnalysisIdle /\ CallsIdle /\ QueueIdle

\* a millisecond passes
clock_tick ==
  /\ storeRev # "none"
  /\ now < MaxClock
  /\ now' = now + 1
  /\ UNCHANGED <<rev, helpersDefined, storeRev, metricsStore, handlers,
                 analysisVars, callVars, queueVars>>

\* a handler runs until it returns or awaits; the continuation of an await
\* runs before the handler of another request starts
NoneAwaiting == \A q \in RequestIds : handlers[q].pc # "awaiting"

\* src/unnamed/part_000 lines 28-47
post_analyze_store(r) ==
  /\ storeRev = "part000"
  /\ handlers[r].pc = "arrived"
  /\ LET out == AloneOutcome(rev, helpersDefined, handlers[r].body)
         jobId == NumberToString(DateNow(now))
         value == [metrics |-> out.metrics, insights |-> out.insights]
     IN IF out.thrown # "none"
          THEN /\ handlers' = [handlers EXCEPT ![r].pc = "answered", ![r].code = 500]
               /\ metricsStore' = metricsStore
          ELSE /\ metricsStore' = MapSet(metricsStore, jobId, value)
               /\ handlers' = [handlers EXCEPT ![r].pc = "answered",
                                               ![r].code = 200,
                                               ![r].jobId = <<jobId>>,
                                               ![r].value = <<value>>]
  /\ UNCHANGED <<rev, helpersDefined, storeRev, now, analysisVars, callVars,
                 queueVars>>

\* src/unnamed/part_003 lines 82-101: up to `await generateInsights(metrics)`
post_analyze_await(r) ==
  /\ storeRev = "part003"
  /\ handlers[r].pc = "arrived"
  /\ NoneAwaiting
  /\ LET out == AloneOutcome(rev, helpersDefined, handlers[r].body)
     IN handlers' =
          IF handlers[r].body.shape = "noLog" \/ out.thrown # "none"
            THEN [handlers EXCEPT ![r].pc = "answered", ![r].code = 500]
            ELSE [handlers EXCEPT
                    ![r].pc = "awaiting",
                    ![r].jobId = <<DateNow(now)>>,
                    ![r].value = <<[metrics |-> out.metrics,
                                    insights |-> out.insights]>>]
  /\ UNCHANGED <<rev, helpersDefined, storeRev, now, metricsStore,
                 analysisVars, callVars, queueVars>>

\* src/unnamed/part_003 lines 42-79 and 99-119: generateInsights reads
\* metrics.domains.size and metrics.httpMetrics of what analyzeHAR returned;
\* src/utils/harAnalyzer.js returns {metrics, insights}, which has neither
post_analyze_resume(r) ==
  /\ storeRev = "part003"
  /\ handlers[r].pc = "awaiting"
  /\ IF rev = "utils"
       THEN /\ handlers' = [handlers EXCEPT ![r].pc = "answered", ![r].code = 500,
                                            ![r].jobId = <<>>, ![r].value = <<>>]
            /\ metricsStore' = metricsStore
       ELSE /\ metricsStore' = MapSet(metricsStore, handlers[r].jobId[1],
                                      handlers[r].value[1])
            /\ handlers' = [handlers EXCEPT ![r].pc = "answered", ![r].code = 200]
  /\ UNCHANGED <<rev, helpersDefined, storeRev, now, analysisVars, callVars,
                 queueVars>>

\* GET /results/:jobId with the jobId the request was answered with:
\* part_000 lines 50-67, part_003 lines 122-131
get_results(r) ==
  /\ storeRev # "none"
  /\ handlers[r].pc = "answered"
  /\ handlers[r].code = 200
  /\ handlers[r].got = <<>>
  /\ NoneAwaiting
  /\ LET param == ParamOf(handlers[r].jobId[1])
         key == IF storeRev = "part000" THEN param ELSE ParseInt(param)
     IN handlers' = [handlers EXCEPT ![r].got = <<MapGet(metricsStore, key)>>]
  /\ UNCHANGED <<rev, helpersDefined, storeRev, now, metricsStore,
                 analysisVars, callVars, queueVars>>

NextStore ==
  \/ clock_tick
  \/ \E r \in RequestIds : post_analyze_store(r)
  \/ \E r \in RequestIds : post_analyze_await(r)
  \/ \E r \in RequestIds : post_analyze_resume(r)
  \/ \E r \in RequestIds : get_results(r)

SpecStore == InitStore /\ [][NextStore]_vars

Succeeded(r) == handlers[r].pc = "answered" /\ handlers[r].code = 200

\* C30: every POST /analyze that succeeds receives a jobId different from
\* that of every other request, so a stored result is never overwritten and
\* GET /results/:jobId returns the result of the request that was given
\* that jobId, in every interleaving of requests, two requests in the same
\* millisecond included.
C30_JobIdsUnique ==
  \A r \in RequestIds :
    Succeeded(r) =>
      /\ \A q \in RequestIds \ {r} :
           Succeeded(q) => handlers[q].jobId # handlers[r].jobId
      /\ handlers[r].got # <<>> => handlers[r].got[1] = handlers[r].value

====
